---------------------------- MODULE Spec2Model ----------------------------
(***************************************************************************)
(* The client-side cache-aside layer of Eiga (cacheService): a persistent  *)
(* key-value store of JSON envelopes {data, timestamp, expiry}, the        *)
(* in-memory registry pendingRequests of in-flight fetches, and withCache, *)
(* run by several asynchronous callers on one event loop.  Every await of  *)
(* the source is a suspension point: one action per resumption.            *)
(***************************************************************************)
EXTENDS Integers, Sequences, FiniteSets, TLC

NumCalls == 2      \* withCache invocations in one run
MaxNow == 1        \* last value of the clock Date.now()
MaxFaults == 2     \* AsyncStorage operations that fail in one run
NumRefresh == 3    \* invocations of refreshUserData in one run
MaxLater == 4      \* times the clock of AuthContext advances in one run

DEFAULT_CACHE_EXPIRY == 1000 * 60 * 15

Calls == 1..NumCalls

(***************************************************************************)
(* JavaScript values, symbolic: "v1" and "v2" stand for truthy payloads    *)
(* (objects, arrays, non-empty strings), the others for the values of the  *)
(* same name; "" is the empty string.  Payloads are the values the fetchFn *)
(* of a withCache call resolves with: a truthy one, a falsy one that is    *)
(* not null, and null.                                                     *)
(***************************************************************************)
Undefined == "undefined"
Null == "null"
Falsy == {Undefined, Null, "0", "false", "", "NaN"}
Truthy(v) == v \notin Falsy
Payloads == {"v1", "0", "null"}

(***************************************************************************)
(* Keys are strings, modelled as sequences of characters.  NoArg is an     *)
(* omitted (undefined) optional string argument; it is no string.          *)
(***************************************************************************)
NoArg == <<"undefined">>
TruthyStr(s) == s # NoArg /\ s # <<>>

\* the cache key without the scope
CacheKey_IgnoresScope(key, userId) == key

\* `${key}_${userId}` when userId is truthy, else key
CacheKey(key, userId) ==
    IF TruthyStr(userId) THEN key \o <<"_">> \o userId ELSE key

(***************************************************************************)
(* Maps with string keys (a JavaScript object, the AsyncStorage contents): *)
(* functions whose domain is the set of keys present.                      *)
(***************************************************************************)
EmptyMap == [x \in {} |-> 0]
Has(m, k) == k \in DOMAIN m
Put(m, k, v) == [x \in DOMAIN m \cup {k} |-> IF x = k THEN v ELSE m[x]]
Del(m, k) == [x \in DOMAIN m \ {k} |-> m[x]]

(***************************************************************************)
(* JSON.stringify of the envelope and JSON.parse with the destructuring of *)
(* loadFromCache.  A property whose value is undefined is left out of the  *)
(* text; NaN is written as null; a missing expiry reads as the default.    *)
(***************************************************************************)
JsonValue(v) == IF v = "NaN" THEN Null ELSE v

JsonStringify(cacheData) ==
    IF cacheData.data = Undefined
    THEN [timestamp |-> cacheData.timestamp, expiry |-> cacheData.expiry]
    ELSE [data |-> JsonValue(cacheData.data),
          timestamp |-> cacheData.timestamp, expiry |-> cacheData.expiry]

JsonParseEnvelope(blob) ==
    [data |-> IF "data" \in DOMAIN blob THEN blob.data ELSE Undefined,
     timestamp |-> blob.timestamp,
     expiry |-> IF "expiry" \in DOMAIN blob THEN blob.expiry
                ELSE DEFAULT_CACHE_EXPIRY]

\* the validity test with <= for <
IsValid_Inclusive(env, t) == t - env.timestamp <= env.expiry

\* the validity test of loadFromCache
IsValid(env, t) == t - env.timestamp < env.expiry

\* A stored text that is no envelope: the empty string, which line 19 takes
\* for no text at all, or a text JSON.parse throws on.
Corrupt == [text |-> "{"]
Parses(blob) == "timestamp" \in DOMAIN blob

\* loadFromCache without the validity test
LoadFromCache_IgnoresExpiry(st, cacheKey, t, ok) ==
    IF ok /\ Has(st, cacheKey) /\ Parses(st[cacheKey])
    THEN JsonParseEnvelope(st[cacheKey]).data
    ELSE Null

\* loadFromCache without its try and catch: the error of getItem or of
\* JSON.parse reaches the caller
LoadFromCache_NoCatch(st, cacheKey, t, ok) ==
    IF ~ok \/ (Has(st, cacheKey) /\ ~Parses(st[cacheKey])) THEN "throws"
    ELSE IF Has(st, cacheKey)
    THEN LET env == JsonParseEnvelope(st[cacheKey])
         IN  IF IsValid(env, t) THEN env.data ELSE Null
    ELSE Null

\* what loadFromCache returns when getItem answers from the contents st at
\* time t (ok), or fails (~ok: the catch block, as when JSON.parse throws)
LoadFromCache(st, cacheKey, t, ok) ==
    IF ok /\ Has(st, cacheKey) /\ Parses(st[cacheKey])
    THEN LET env == JsonParseEnvelope(st[cacheKey])
         IN  IF IsValid(env, t) THEN env.data ELSE Null
    ELSE Null

\* saveToCache whose failed setItem loses the entry it was to replace
SaveToCache_Torn(st, cacheKey, data, t, expiry, ok) ==
    IF ok
    THEN Put(st, cacheKey,
             JsonStringify([data |-> data, timestamp |-> t, expiry |-> expiry]))
    ELSE Del(st, cacheKey)

\* the contents after saveToCache's setItem (ok) or its failure (~ok)
SaveToCache(st, cacheKey, data, t, expiry, ok) ==
    IF ok
    THEN Put(st, cacheKey,
             JsonStringify([data |-> data, timestamp |-> t, expiry |-> expiry]))
    ELSE st

\* clearCache emptying the store
\* clearCache removing nothing
ClearCache_Keeps(st, cacheKey, ok) == st

ClearCache_All(st, cacheKey, ok) == IF ok THEN EmptyMap ELSE st

\* the contents after clearCache's removeItem (ok) or its failure (~ok)
ClearCache(st, cacheKey, ok) == IF ok THEN Del(st, cacheKey) ELSE st

\* String.prototype.includes
Includes(s, sub) ==
    \E i \in 1..(Len(s) - Len(sub) + 1) : SubSeq(s, i, i + Len(sub) - 1) = sub

\* a sweep that matches no key
UserKeys_None(keys, userId) == {}

\* line 68: the keys clearUserCache hands to multiRemove
UserKeys(keys, userId) == {key \in keys : Includes(key, <<"_">> \o userId)}

VARIABLES
    store,            \* AsyncStorage: cache key -> envelope text
    pendingRequests,  \* cache key -> the call whose fetchFn() promise it holds
    fetch,            \* per call: the promise returned by its fetchFn()
    call,             \* per call: arguments, position and locals of withCache
    now,              \* Date.now()
    faults,           \* AsyncStorage operations that have failed
    op,               \* the last call of loadFromCache, saveToCache or clearCache
                      \* made on its own: its arguments, whether AsyncStorage
                      \* succeeded (ok), the value returned or saved (val), and
                      \* whether it left the other scopes of its key alone (kept)
    isRefreshingRef,      \* AuthContext: isRefreshingRef.current
    lastRefreshTimeRef,   \* AuthContext: lastRefreshTimeRef.current
    refresh               \* per invocation of refreshUserData: its position

\* the state of the cache service and that of AuthContext's refresh
cacheVars == <<store, pendingRequests, fetch, call, faults, op>>
authVars == <<isRefreshingRef, lastRefreshTimeRef, refresh>>

vars == <<store, pendingRequests, fetch, call, now, faults, op,
          isRefreshingRef, lastRefreshTimeRef, refresh>>

\* arguments of the withCache calls of a run
WKeys == {<<"k">>}
WUsers == {<<"u">>}
Expiries == {1, DEFAULT_CACHE_EXPIRY}

NoOp == [name |-> "none", key |-> <<>>, userId |-> NoArg, ok |-> TRUE,
         val |-> Undefined, kept |-> TRUE]

NoPromise == [st |-> "none", val |-> Undefined]

IdleCall ==
    [pc |-> "idle", key |-> <<>>, userId |-> NoArg, expiry |-> 0,
     forceRefresh |-> FALSE,
     issued |-> "no",           \* how the call was issued: see Issued
     fresh |-> FALSE,           \* forceRefresh, issued over a valid stored entry
     cleared |-> "no",          \* clearCache's removeItem: no, ok, fail
     older |-> {},              \* the calls whose fetch was in flight when it succeeded
     fetches |-> 0,             \* its invocations of fetchFn
     loaded |-> "no",           \* what getItem found: no, fail, absent, expired, valid
     stored |-> Undefined,      \* the data of the envelope getItem found
     seen |-> 0,                \* pendingRequests[cacheKey] as read at line 100
     early |-> FALSE,           \* the promise read at line 100 was still pending
     data |-> Undefined,        \* line 108
     ts |-> 0,                  \* Date.now() of line 43
     wrote |-> FALSE,           \* its setItem changed the store
     ret |-> 0,                 \* the promise returned at line 102
     result |-> Undefined,      \* the value the call resolved with
     error |-> 0]               \* the fetch whose error the call rejected with

KeyOf(c) == CacheKey(call[c].key, call[c].userId)
Pending(ck) == IF Has(pendingRequests, ck) THEN pendingRequests[ck] ELSE 0
\* a rejection that no continuation is told of
Settled_OnlyResolved(p) == fetch[p].st = "resolved"

Settled(p) == fetch[p].st \in {"resolved", "rejected"}

\* AuthContext.tsx lines 36-39: the refs of a mounted AuthProvider
REFRESH_COOLDOWN == 2000
Refreshers == 1..NumRefresh
IdleRefresh == [pc |-> "idle",       \* idle, getSession, loadProfile, query, returned
                exit |-> "none",     \* the path the invocation returned by
                touched |-> FALSE]   \* it has used the session, cache or database

AuthInit ==
    /\ isRefreshingRef = FALSE
    /\ lastRefreshTimeRef = 0
    /\ refresh = [r \in Refreshers |-> IdleRefresh]

\* the stores a previous session of the app can have left behind
InitEntries ==
    {JsonStringify([data |-> d, timestamp |-> 0, expiry |-> e]) :
        d \in Payloads, e \in Expiries}
WCacheKeys == {CacheKey(k, u) : k \in WKeys, u \in WUsers}
InitStores ==
    UNION {[S -> InitEntries] : S \in SUBSET WCacheKeys}

Init ==
    /\ store \in InitStores
    /\ pendingRequests = EmptyMap
    /\ fetch = [c \in Calls |-> NoPromise]
    /\ call = [c \in Calls |-> IdleCall]
    /\ now = 0
    /\ faults = 0
    /\ op = NoOp
    /\ AuthInit

\* an AsyncStorage operation succeeds (ok) or fails
Outcome(ok) ==
    /\ ~ok => faults < MaxFaults
    /\ faults' = IF ok THEN faults ELSE faults + 1

\* the call settles; its locals are gone
Settle(c, pc, v, e) ==
    [call EXCEPT ![c].pc = pc, ![c].result = v, ![c].error = e,
                 ![c].expiry = 0, ![c].data = Undefined,
                 ![c].ts = 0, ![c].ret = 0]
Resolve(c, v) == Settle(c, "done", v, 0)
Reject(c, e) == Settle(c, "failed", Undefined, e)

InProgress(c) == call[c].pc \notin {"idle", "done", "failed"}
AtFirstAwait(c) == call[c].pc \in {"load", "clear"}

\* how call c for cache key ck is issued: "together" with the call before it,
\* which has not run past its first await; as a "retry", when no call is in
\* progress and a call for the same key has rejected with the error of its
\* own fetch; "other" otherwise
Issued(c, ck) ==
    IF c > 1 /\ AtFirstAwait(c - 1) THEN "together"
    ELSE IF /\ \A d \in Calls : ~InProgress(d)
            /\ \E d \in Calls : /\ call[d].pc = "failed" /\ call[d].error = d
                                 /\ KeyOf(d) = ck
         THEN "retry"
    ELSE "other"

\* withCache reading the cache whatever forceRefresh says
FirstAwait_AlwaysLoad(forceRefresh) == "load"

\* lines 89-93: which await comes first
FirstAwait(forceRefresh) == IF forceRefresh THEN "clear" ELSE "load"

\* lines 79-93: the call, up to its first await
Call(c, key, userId, expiry, forceRefresh) ==
    /\ call[c].pc = "idle"
    /\ c > 1 => call[c - 1].pc # "idle"
    /\ LET ck == CacheKey(key, userId)
       IN  call' = [call EXCEPT ![c].pc = FirstAwait(forceRefresh),
                                ![c].key = key, ![c].userId = userId,
                                ![c].expiry = expiry,
                                ![c].forceRefresh = forceRefresh,
                                ![c].issued = Issued(c, ck),
                                ![c].fresh =
                                    /\ forceRefresh
                                    /\ LoadFromCache(store, ck, now, TRUE) # Null]
    /\ UNCHANGED <<store, pendingRequests, fetch, now, faults, op,
                 authVars>>

\* line 90: clearCache's removeItem settles
ClearDone(c) ==
    /\ call[c].pc = "clear"
    /\ \E ok \in BOOLEAN :
         /\ Outcome(ok)
         /\ store' = ClearCache(store, KeyOf(c), ok)
         /\ call' = [call EXCEPT ![c].pc = "line100",
                                 ![c].cleared = IF ok THEN "ok" ELSE "fail",
                                 ![c].older =
                                     IF ok THEN {d \in Calls \ {c} :
                                                   /\ call[d].pc = "await108"
                                                   /\ KeyOf(d) = KeyOf(c)}
                                     ELSE {}]
    /\ UNCHANGED <<pendingRequests, fetch, now, op,
                 authVars>>

\* lines 93-96: loadFromCache's getItem settles
LoadDone(c) ==
    /\ call[c].pc = "load"
    /\ \E ok \in BOOLEAN :
         LET ck == KeyOf(c)
             cachedData == LoadFromCache(store, ck, now, ok)
             found == IF ~ok THEN "fail"
                      ELSE IF ~Has(store, ck) THEN "absent"
                      ELSE IF IsValid(JsonParseEnvelope(store[ck]), now)
                           THEN "valid" ELSE "expired"
             to == IF cachedData # Null
                   THEN Resolve(c, cachedData)     \* line 95
                   ELSE [call EXCEPT ![c].pc = "line100"]
         IN  /\ Outcome(ok)
             /\ call' = [to EXCEPT ![c].loaded = found,
                                   ![c].stored =
                                       IF found \in {"valid", "expired"}
                                       THEN JsonParseEnvelope(store[ck]).data
                                       ELSE Undefined]
    /\ UNCHANGED <<store, pendingRequests, fetch, now, op,
                 authVars>>

\* line 100: pendingRequests[cacheKey] is read and awaited
ReadPending(c) ==
    /\ call[c].pc = "line100"
    /\ LET p == Pending(KeyOf(c))
       IN  call' = [call EXCEPT ![c].pc = "await100", ![c].seen = p,
                                ![c].early = (p # 0 /\ ~Settled(p))]
    /\ UNCHANGED <<store, pendingRequests, fetch, now, faults, op,
                 authVars>>

\* line 107: fetchFn() is called and its promise registered
StartFetch(c) ==
    /\ fetch' = [fetch EXCEPT ![c] = [st |-> "pending", val |-> Undefined]]
    /\ pendingRequests' = Put(pendingRequests, KeyOf(c), c)
    /\ call' = [call EXCEPT ![c].pc = "await108",
                            ![c].fetches = call[c].fetches + 1]

\* lines 100-107: the await of line 100 resumes
CheckResume(c) ==
    /\ call[c].pc = "await100"
    /\ LET p == call[c].seen
           ck == KeyOf(c)
       IN  IF p = 0
           THEN StartFetch(c)
           ELSE /\ Settled(p)
                /\ IF fetch[p].st = "rejected"
                   THEN /\ call' = Reject(c, p)
                        /\ UNCHANGED <<pendingRequests, fetch>>
                   ELSE IF Truthy(fetch[p].val)
                   THEN \* line 102: return pendingRequests[cacheKey]
                        /\ call' = IF Pending(ck) = 0
                                   THEN Resolve(c, Undefined)
                                   ELSE [call EXCEPT ![c].pc = "await102",
                                                     ![c].ret = Pending(ck)]
                        /\ UNCHANGED <<pendingRequests, fetch>>
                   ELSE StartFetch(c)
    /\ UNCHANGED <<store, now, faults, op,
                 authVars>>

\* the promise of a fetchFn() call settles
FetchSettle(c) ==
    /\ fetch[c].st = "pending"
    /\ \/ \E v \in Payloads :
            fetch' = [fetch EXCEPT ![c] = [st |-> "resolved", val |-> v]]
       \/ fetch' = [fetch EXCEPT ![c] = [st |-> "rejected", val |-> Undefined]]
    /\ UNCHANGED <<store, pendingRequests, call, now, faults, op,
                 authVars>>

\* withCache leaving the registration in place
Finally_Skip(cacheKey) == pendingRequests

\* lines 114-117: the finally block
Finally(cacheKey) == Del(pendingRequests, cacheKey)

\* lines 108-111 and 43: the await of line 108 resumes
FetchResume(c) ==
    /\ call[c].pc = "await108"
    /\ Settled(c)
    /\ IF fetch[c].st = "resolved"
       THEN /\ call' = [call EXCEPT ![c].pc = "save", ![c].data = fetch[c].val,
                                    ![c].ts = now]
            /\ UNCHANGED pendingRequests
       ELSE \* the finally block, then the rejection
            /\ pendingRequests' = Finally(KeyOf(c))
            /\ call' = Reject(c, c)
    /\ UNCHANGED <<store, fetch, now, faults, op,
                 authVars>>

\* saveToCache without its catch: the error of setItem rejects the call
SaveDone_Rejects(c) ==
    /\ call[c].pc = "save"
    /\ \E ok \in BOOLEAN :
         /\ Outcome(ok)
         /\ store' = SaveToCache(store, KeyOf(c), call[c].data, call[c].ts,
                                 call[c].expiry, ok)
         /\ call' = IF ok
                    THEN [call EXCEPT ![c].pc = "line113", ![c].wrote = TRUE]
                    ELSE Reject(c, 0)
         /\ pendingRequests' = IF ok THEN pendingRequests
                               ELSE Finally(KeyOf(c))
    /\ UNCHANGED <<fetch, now, op,
                 authVars>>

\* line 46: saveToCache's setItem settles
SaveDone(c) ==
    /\ call[c].pc = "save"
    /\ \E ok \in BOOLEAN :
         /\ Outcome(ok)
         /\ store' = SaveToCache(store, KeyOf(c), call[c].data, call[c].ts,
                                 call[c].expiry, ok)
         /\ call' = [call EXCEPT ![c].pc = "line113", ![c].wrote = ok]
    /\ UNCHANGED <<pendingRequests, fetch, now, op,
                 authVars>>

\* the reactions of a promise run in the order they were attached: a caller
\* that awaited c's promise at line 100 before it settled resumes before c,
\* which awaited it first and then awaits saveToCache, reaches line 113
ReactionsRan(c) ==
    \A w \in Calls :
        ~(call[w].pc = "await100" /\ call[w].seen = c /\ call[w].early)

\* lines 113-117: return data, through the finally block
Finish(c) ==
    /\ call[c].pc = "line113"
    /\ ReactionsRan(c)
    /\ pendingRequests' = Finally(KeyOf(c))
    /\ call' = Resolve(c, call[c].data)
    /\ UNCHANGED <<store, fetch, now, faults, op,
                 authVars>>

\* line 102: the promise returned from the async function settles
ReturnResume(c) ==
    /\ call[c].pc = "await102"
    /\ Settled(call[c].ret)
    /\ call' = IF fetch[call[c].ret].st = "resolved"
               THEN Resolve(c, fetch[call[c].ret].val)
               ELSE Reject(c, call[c].ret)
    /\ UNCHANGED <<store, pendingRequests, fetch, now, faults, op,
                 authVars>>

Tick ==
    /\ now < MaxNow
    /\ now' = now + 1
    /\ UNCHANGED <<store, pendingRequests, fetch, call, faults, op,
                 authVars>>

Step ==
    \/ \E c \in Calls, key \in WKeys, userId \in WUsers, expiry \in Expiries,
          forceRefresh \in BOOLEAN : Call(c, key, userId, expiry, forceRefresh)
    \/ \E c \in Calls : ClearDone(c)
    \/ \E c \in Calls : LoadDone(c)
    \/ \E c \in Calls : ReadPending(c)
    \/ \E c \in Calls : CheckResume(c)
    \/ \E c \in Calls : FetchSettle(c)
    \/ \E c \in Calls : FetchResume(c)
    \/ \E c \in Calls : SaveDone(c)
    \/ \E c \in Calls : Finish(c)
    \/ \E c \in Calls : ReturnResume(c)

Next == Step \/ Tick

Spec == Init /\ [][Next]_vars

\* Every AsyncStorage operation settles, and the event loop runs a
\* continuation whose promise has settled: while some call can take a step,
\* a step of some call is taken.  Nothing makes a fetchFn() promise settle,
\* a caller call withCache, or time pass.
Resume ==
    \E c \in Calls :
        \/ ClearDone(c) \/ LoadDone(c) \/ ReadPending(c) \/ CheckResume(c)
        \/ FetchResume(c) \/ SaveDone(c) \/ Finish(c) \/ ReturnResume(c)

Fairness == WF_vars(Resume)

\* the runs in which the clock stands still
SpecFair == Init /\ [][Step]_vars /\ Fairness

\* the runs of SpecFair in which, besides, every fetchFn() promise settles
SpecLive ==
    Init /\ [][Step]_vars /\ Fairness /\ WF_vars(\E c \in Calls : FetchSettle(c))

(***************************************************************************)
(* The primitives called on their own, one after the other, by a caller    *)
(* that awaits each: loadFromCache (get), saveToCache (set) and clearCache *)
(* (invalidate), over one logical key and several scopes.                  *)
(***************************************************************************)
SKeys == {<<"k">>}
SUsers == {NoArg, <<>>, <<"u">>, <<"w">>}
Scopes == SUsers \ {NoArg}

\* the entries of key under the scopes other than userId are in st2 as in st1
OthersKept(st1, st2, key, userId) ==
    \A b \in Scopes \ {userId} :
        LET ck == CacheKey(key, b)
        IN  /\ Has(st2, ck) <=> Has(st1, ck)
            /\ Has(st1, ck) => st2[ck] = st1[ck]
SPayloads == {"v1", "v2"}
SExpiries == {1, DEFAULT_CACHE_EXPIRY}

InitStore ==
    /\ store = EmptyMap
    /\ pendingRequests = EmptyMap
    /\ fetch = [c \in Calls |-> NoPromise]
    /\ call = [c \in Calls |-> IdleCall]
    /\ now = 0
    /\ faults = 0
    /\ op = NoOp
    /\ AuthInit

\* loadFromCache removing the expired entry it finds
Get_Evicts(key, userId) ==
    /\ \E ok \in BOOLEAN :
         LET ck == CacheKey(key, userId)
             cachedData == LoadFromCache(store, ck, now, ok)
         IN  /\ op' = [name |-> "get", key |-> key, userId |-> userId,
                       ok |-> ok, val |-> cachedData, kept |-> TRUE]
             /\ store' = IF ok /\ Has(store, ck) /\ cachedData = Null
                         THEN Del(store, ck) ELSE store
    /\ UNCHANGED <<pendingRequests, fetch, call, now, faults,
                 authVars>>

\* lines 14-35
Get(key, userId) ==
    /\ \E ok \in BOOLEAN :
         /\ op' = [name |-> "get", key |-> key, userId |-> userId, ok |-> ok,
                   val |-> LoadFromCache(store, CacheKey(key, userId), now, ok),
                   kept |-> TRUE]
    /\ UNCHANGED <<store, pendingRequests, fetch, call, now, faults,
                 authVars>>

\* lines 38-51
Set(key, data, userId, expiry) ==
    /\ \E ok \in BOOLEAN :
         /\ store' = SaveToCache(store, CacheKey(key, userId), data, now,
                                 expiry, ok)
         /\ op' = [name |-> "set", key |-> key, userId |-> userId, ok |-> ok,
                   val |-> data,
                   kept |-> OthersKept(store, store', key, userId)]
    /\ UNCHANGED <<pendingRequests, fetch, call, now, faults,
                 authVars>>

\* lines 54-62
Invalidate(key, userId) ==
    /\ \E ok \in BOOLEAN :
         /\ store' = ClearCache(store, CacheKey(key, userId), ok)
         /\ op' = [name |-> "invalidate", key |-> key, userId |-> userId,
                   ok |-> ok, val |-> Undefined,
                   kept |-> OthersKept(store, store', key, userId)]
    /\ UNCHANGED <<pendingRequests, fetch, call, now, faults,
                 authVars>>

\* time passes between two calls
Elapse ==
    /\ now < MaxNow
    /\ now' = now + 1
    /\ op' = NoOp
    /\ UNCHANGED <<store, pendingRequests, fetch, call, faults,
                 authVars>>

NextStore ==
    \/ \E key \in SKeys, userId \in SUsers : Get(key, userId)
    \/ \E key \in SKeys, data \in SPayloads, userId \in SUsers,
          expiry \in SExpiries : Set(key, data, userId, expiry)
    \/ \E key \in SKeys, userId \in SUsers : Invalidate(key, userId)
    \/ Elapse

SpecStore == InitStore /\ [][NextStore]_vars

(***************************************************************************)
(* The same primitives over every kind of payload, on a store a previous   *)
(* session can have left with a text that is no envelope.  Time passes     *)
(* between a set and the get that follows it.                              *)
(***************************************************************************)
TUsers == {NoArg, <<"u">>}
TPayloads == {"v1", "null", "0", ""}
TCacheKeys == {CacheKey(k, u) : k \in SKeys, u \in TUsers}

InitTrip ==
    /\ store \in UNION {[S -> {Corrupt}] : S \in SUBSET TCacheKeys}
    /\ pendingRequests = EmptyMap
    /\ fetch = [c \in Calls |-> NoPromise]
    /\ call = [c \in Calls |-> IdleCall]
    /\ now = 0
    /\ faults = 0
    /\ op = NoOp
    /\ AuthInit

\* time passes after a call has returned
Wait ==
    /\ now < MaxNow
    /\ now' = now + 1
    /\ UNCHANGED <<store, pendingRequests, fetch, call, faults, op,
                 authVars>>

NextTrip ==
    \/ \E key \in SKeys, userId \in TUsers : Get(key, userId)
    \/ \E key \in SKeys, data \in TPayloads, userId \in TUsers,
          expiry \in SExpiries : Set(key, data, userId, expiry)
    \/ \E key \in SKeys, userId \in TUsers : Invalidate(key, userId)
    \/ Wait

SpecTrip == InitTrip /\ [][NextTrip]_vars

(***************************************************************************)
(* The bulk sweep clearUserCache (invalidateScope) next to saveToCache and *)
(* clearCache, over two logical keys and scopes of which one is a prefix   *)
(* of another.  The clock stands still.                                    *)
(***************************************************************************)
XKeys == {<<"k">>, <<"m">>}
XUsers == {NoArg, <<"u">>, <<"u", "2">>, <<"w">>}
XScopes == XUsers \ {NoArg}

\* clearUserCache whose failure reaches the caller
InvalidateScope_Throws(userId) ==
    \E okKeys, okRemove \in BOOLEAN, removed \in SUBSET DOMAIN store :
        LET userKeys == IF okKeys THEN UserKeys(DOMAIN store, userId) ELSE {}
        IN  /\ removed \subseteq userKeys
            /\ okRemove => removed = userKeys
            /\ userKeys = {} => okRemove
            /\ store' = [x \in DOMAIN store \ removed |-> store[x]]
            /\ op' = [name |-> "sweep", key |-> <<>>, userId |-> userId,
                      ok |-> okKeys /\ okRemove,
                      val |-> IF okKeys /\ okRemove THEN Undefined
                              ELSE "throws",
                      kept |-> TRUE]
            /\ UNCHANGED <<pendingRequests, fetch, call, now, faults,
                 authVars>>

\* lines 65-76: getAllKeys answers (okKeys) or fails; multiRemove, called
\* when some key matches, removes the matching keys (okRemove) or fails
\* having removed some of them; the catch block swallows either failure
InvalidateScope(userId) ==
    \E okKeys, okRemove \in BOOLEAN, removed \in SUBSET DOMAIN store :
        LET userKeys == IF okKeys THEN UserKeys(DOMAIN store, userId) ELSE {}
        IN  /\ removed \subseteq userKeys
            /\ okRemove => removed = userKeys
            /\ userKeys = {} => okRemove
            /\ store' = [x \in DOMAIN store \ removed |-> store[x]]
            /\ op' = [name |-> "sweep", key |-> <<>>, userId |-> userId,
                      ok |-> okKeys /\ okRemove, val |-> Undefined,
                      kept |-> TRUE]
            /\ UNCHANGED <<pendingRequests, fetch, call, now, faults,
                 authVars>>

NextSweep ==
    \/ \E key \in XKeys, userId \in XUsers :
          Set(key, "v1", userId, DEFAULT_CACHE_EXPIRY)
    \/ \E key \in XKeys, userId \in XUsers : Invalidate(key, userId)
    \/ \E userId \in XScopes : InvalidateScope(userId)

SpecSweep == InitStore /\ [][NextSweep]_vars

(***************************************************************************)
(* The primitives over logical keys of which one contains '_', with no     *)
(* scope, the empty scope and a scope.  The clock stands still.            *)
(***************************************************************************)
PKeys == {<<"k">>, <<"k", "_", "u">>}
PUsers == {NoArg, <<>>, <<"u">>}

NextPairs ==
    \/ \E key \in PKeys, userId \in PUsers : Get(key, userId)
    \/ \E key \in PKeys, data \in SPayloads, userId \in PUsers :
          Set(key, data, userId, DEFAULT_CACHE_EXPIRY)
    \/ \E key \in PKeys, userId \in PUsers : Invalidate(key, userId)

SpecPairs == InitStore /\ [][NextPairs]_vars

(***************************************************************************)
(* AuthContext.refreshUserData (src/context/AuthContext.tsx, lines         *)
(* 499-634), invoked several times on one event loop.  Each await is a     *)
(* suspension point; the clock starts a cooldown after the epoch.          *)
(***************************************************************************)
InBody == {r \in Refreshers : refresh[r].pc \in {"getSession", "loadProfile", "query"}}

\* a finally block that leaves the flag as it is
FinallyReset_Keeps(current) == current

\* lines 630-633: isRefreshingRef.current after the finally block
FinallyReset(current) == FALSE

Return(r, exit) ==
    [refresh EXCEPT ![r].pc = "returned", ![r].exit = exit]

InitAuth ==
    /\ store = EmptyMap
    /\ pendingRequests = EmptyMap
    /\ fetch = [c \in Calls |-> NoPromise]
    /\ call = [c \in Calls |-> IdleCall]
    /\ now = REFRESH_COOLDOWN
    /\ faults = 0
    /\ op = NoOp
    /\ AuthInit

\* lines 499-517: the call, up to its first await
RefreshUserData(r) ==
    /\ refresh[r].pc = "idle"
    /\ r > 1 => refresh[r - 1].pc # "idle"
    /\ IF isRefreshingRef \/ (now - lastRefreshTimeRef < REFRESH_COOLDOWN)
       THEN /\ refresh' = Return(r, "skipped")
            /\ UNCHANGED <<isRefreshingRef, lastRefreshTimeRef>>
       ELSE /\ isRefreshingRef' = TRUE
            /\ lastRefreshTimeRef' = now
            /\ refresh' = [refresh EXCEPT ![r].pc = "getSession",
                                          ![r].touched = TRUE]
    /\ UNCHANGED <<cacheVars, now>>

\* lines 517-532: supabase.auth.getSession() settles
SessionDone(r) ==
    /\ refresh[r].pc = "getSession"
    /\ \E outcome \in {"throws", "noSession", "onLogin", "session"} :
         IF outcome = "session"
         THEN /\ refresh' = [refresh EXCEPT ![r].pc = "loadProfile"]
              /\ UNCHANGED isRefreshingRef
         ELSE /\ refresh' = Return(r, outcome)
              /\ isRefreshingRef' =
                     FinallyReset(IF outcome = "onLogin" THEN FALSE
                                  ELSE isRefreshingRef)
    /\ UNCHANGED <<cacheVars, now, lastRefreshTimeRef>>

\* lines 532-541: loadProfileFromCache returns
ProfileCacheDone(r) ==
    /\ refresh[r].pc = "loadProfile"
    /\ \E cachedProfile \in BOOLEAN :
         IF cachedProfile
         THEN /\ refresh' = Return(r, "cached")
              /\ isRefreshingRef' = FinallyReset(FALSE)
         ELSE /\ refresh' = [refresh EXCEPT ![r].pc = "query"]
              /\ UNCHANGED isRefreshingRef
    /\ UNCHANGED <<cacheVars, now, lastRefreshTimeRef>>

\* lines 541-633: the profiles query settles
QueryDone(r) ==
    /\ refresh[r].pc = "query"
    /\ \E outcome \in {"throws", "fetched"} :
         /\ refresh' = Return(r, outcome)
         /\ isRefreshingRef' = FinallyReset(isRefreshingRef)
    /\ UNCHANGED <<cacheVars, now, lastRefreshTimeRef>>

\* half a cooldown passes
Later ==
    /\ now < REFRESH_COOLDOWN + MaxLater * (REFRESH_COOLDOWN \div 2)
    /\ now' = now + REFRESH_COOLDOWN \div 2
    /\ UNCHANGED <<cacheVars, authVars>>

NextAuth ==
    \/ \E r \in Refreshers : RefreshUserData(r)
    \/ \E r \in Refreshers : SessionDone(r)
    \/ \E r \in Refreshers : ProfileCacheDone(r)
    \/ \E r \in Refreshers : QueryDone(r)
    \/ Later

SpecAuth == InitAuth /\ [][NextAuth]_vars

TypeOK ==
    /\ now \in 0..MaxNow
    /\ faults \in 0..MaxFaults
    /\ \A ck \in DOMAIN pendingRequests : pendingRequests[ck] \in Calls

(***************************************************************************)
(* Vocabulary of the claims.                                               *)
(***************************************************************************)
Returned(c) == call[c].pc \in {"done", "failed"}
PastCheck(c) == call[c].pc \in {"await108", "save", "line113", "done", "failed"}
Invoked(c) == fetch[c].st # "none"
\* the call read the store and found no entry, an expired one, or failed to read
Missed(c) == call[c].loaded \in {"absent", "expired", "fail"}
\* the call read, at line 100, a registration whose fetch was still in flight
Attached(c) == call[c].seen # 0 /\ call[c].early
\* the payload of an envelope as it lies in the store
StoredPayload(blob) == IF "data" \in DOMAIN blob THEN blob.data ELSE Undefined

(***************************************************************************)
(* C1.  Single-flight: withCache calls for the same key and scope that are *)
(* issued together and miss the cache invoke fetchFn once between them,    *)
(* and resolve with the same payload.                                      *)
(***************************************************************************)
C1_SingleFlight ==
    \A c \in Calls \ {1} :
        ( /\ call[c].issued = "together" /\ KeyOf(c) = KeyOf(c - 1)
          /\ Missed(c) /\ Missed(c - 1) )
        => /\ ~(Invoked(c) /\ Invoked(c - 1))
           /\ (call[c].pc = "done" /\ call[c - 1].pc = "done")
                => call[c].result = call[c - 1].result

(***************************************************************************)
(* C2.  For each cache key at most one fetchFn invocation started by       *)
(* withCache is outstanding (started and not yet settled).                 *)
(***************************************************************************)
Outstanding(ck) == {c \in Calls : fetch[c].st = "pending" /\ KeyOf(c) = ck}

C2_OneInFlightPerKey ==
    \A ck \in WCacheKeys : Cardinality(Outstanding(ck)) <= 1

(***************************************************************************)
(* C3.  A caller that misses the cache while a request is in flight for    *)
(* its key never invokes its own fetchFn and settles with that fetch's     *)
(* outcome: its payload, whatever the value, or its error.                 *)
(***************************************************************************)
C3_AttachSharesOutcome ==
    \A c \in Calls :
        Attached(c) =>
            /\ ~Invoked(c)
            /\ call[c].pc = "done" =>
                   /\ fetch[call[c].seen].st = "resolved"
                   /\ call[c].result = fetch[call[c].seen].val
            /\ call[c].pc = "failed" =>
                   /\ fetch[call[c].seen].st = "rejected"
                   /\ call[c].error = call[c].seen

(***************************************************************************)
(* C4.  A call without forceRefresh that finds a non-expired entry         *)
(* resolves with the stored payload, whatever its value, and never invokes *)
(* fetchFn.                                                                *)
(***************************************************************************)
C4_HitAvoidsFetch ==
    \A c \in Calls :
        call[c].loaded = "valid" =>
            /\ call[c].pc = "done"
            /\ call[c].result = call[c].stored
            /\ ~Invoked(c)

(***************************************************************************)
(* C5.  A call that finds an expired entry and no registered request       *)
(* invokes fetchFn exactly once and settles with that fetch's outcome: it  *)
(* resolves with the payload fetchFn returned, not the stale one.          *)
(***************************************************************************)
C5_ExpiryRefetches ==
    \A c \in Calls :
        ( call[c].loaded = "expired" /\ call[c].seen = 0
          /\ (PastCheck(c) \/ Returned(c)) )
        => /\ call[c].fetches = 1
           /\ call[c].pc = "done" =>
                  fetch[c].st = "resolved" /\ call[c].result = fetch[c].val
           /\ call[c].pc = "failed" =>
                  fetch[c].st = "rejected" /\ call[c].error = c

C5_Witness ==
    \E c \in Calls :
        /\ call[c].loaded = "expired" /\ call[c].seen = 0
        /\ call[c].pc = "done" /\ call[c].fetches = 1
        /\ call[c].result = fetch[c].val
        /\ call[c].result # call[c].stored


(***************************************************************************)
(* C6 as claimed.  Issued with forceRefresh over a valid entry, a call     *)
(* never reads the store, invalidates the key, invokes its own fetchFn and *)
(* overwrites the entry - also while another fetch for the key is in       *)
(* flight.                                                                 *)
(***************************************************************************)
C6_ForceRefreshAlwaysFetches ==
    \A c \in Calls :
        (call[c].fresh /\ Returned(c)) =>
            /\ call[c].loaded = "no"
            /\ call[c].cleared # "no"
            /\ call[c].fetches = 1
            /\ (call[c].pc = "done" /\ faults = 0) => call[c].wrote

(***************************************************************************)
(* C6 as amended.  A call with forceRefresh never reads the store and      *)
(* removes the key's entry before anything else.  If it finds no request   *)
(* registered for the key it invokes its own fetchFn once, and its write,  *)
(* when it succeeds, puts the fetched payload under the key.  If it finds  *)
(* a registered request whose fetch resolves with a truthy payload, it     *)
(* returns without invoking its own fetchFn.                               *)
(***************************************************************************)
C6_ForceRefresh ==
    /\ [](\A c \in Calls :
            call[c].forceRefresh =>
                /\ call[c].loaded = "no"
                /\ call[c].pc \notin {"idle", "clear"} => call[c].cleared # "no"
                /\ (call[c].seen = 0 /\ PastCheck(c)) => call[c].fetches = 1
                /\ ( /\ call[c].seen # 0 /\ Returned(c)
                     /\ fetch[call[c].seen].st = "resolved"
                     /\ Truthy(fetch[call[c].seen].val) )
                   => call[c].fetches = 0)
    /\ [][\A c \in Calls :
            ( call[c].forceRefresh /\ call[c].pc = "clear"
              /\ call'[c].cleared = "ok" )
            => ~Has(store', KeyOf(c))]_vars
    /\ [][\A c \in Calls :
            ( call[c].forceRefresh /\ call[c].pc = "save" /\ call'[c].wrote )
            => /\ Has(store', KeyOf(c))
               /\ StoredPayload(store'[KeyOf(c)]) = fetch[c].val
               /\ store'[KeyOf(c)].expiry = call[c].expiry]_vars

C6_Witness ==
    \E c \in Calls :
        /\ call[c].fresh /\ call[c].cleared = "ok" /\ call[c].seen = 0
        /\ call[c].pc = "done" /\ call[c].fetches = 1 /\ call[c].wrote
        /\ Has(store, KeyOf(c))
        /\ StoredPayload(store[KeyOf(c)]) = call[c].result
        /\ \E d \in Calls \ {c} : call[d].seen = c /\ call[d].forceRefresh

(***************************************************************************)
(* C7.  When fetchFn rejects, the call that invoked it rejects with the    *)
(* same error, writes nothing to the store and leaves no registration for  *)
(* the key; a call issued afterwards, on its own, for the same key finds   *)
(* no registration, invokes its fetchFn unless it hits the cache, and      *)
(* resolves with the payload that fetch returns.                           *)
(***************************************************************************)
Hit(c) == call[c].pc = "done" /\ call[c].loaded = "valid" /\ ~Invoked(c)
LastIssued(c) == \A d \in Calls : d > c => call[d].pc = "idle"

C7_FailedFetch ==
    /\ [](\A c \in Calls :
            /\ (fetch[c].st = "rejected" /\ Returned(c)) =>
                   /\ call[c].pc = "failed" /\ call[c].error = c
                   /\ ~call[c].wrote
            /\ (call[c].issued = "retry" /\ LastIssued(c)) =>
                   /\ call[c].seen = 0
                   /\ (PastCheck(c) /\ ~Hit(c)) => call[c].fetches = 1
                   /\ (call[c].pc = "done" /\ ~Hit(c)) =>
                          /\ fetch[c].st = "resolved"
                          /\ call[c].result = fetch[c].val)
    /\ [][\A c \in Calls :
            (call[c].pc = "await108" /\ call'[c].pc = "failed")
            => /\ store' = store
               /\ ~Has(pendingRequests', KeyOf(c))]_vars

C7_Witness ==
    \E c, d \in Calls :
        /\ call[c].pc = "failed" /\ call[c].error = c
        /\ call[d].issued = "retry" /\ KeyOf(d) = KeyOf(c)
        /\ call[d].pc = "done" /\ call[d].fetches = 1
        /\ call[d].result = fetch[d].val

(***************************************************************************)
(* C8.  Once a registered fetch has settled, resolved or rejected, its     *)
(* registration is eventually removed; and whenever no withCache call is   *)
(* in progress, the registry is empty.                                     *)
(***************************************************************************)
Registered(c) == Pending(KeyOf(c)) = c

C8_Cleanup ==
    /\ \A c \in Calls : (Settled(c) /\ Registered(c)) ~> ~Registered(c)
    /\ []((\A c \in Calls : ~InProgress(c)) => pendingRequests = EmptyMap)

C8_Witness ==
    \E c, d \in Calls :
        /\ call[c].pc = "failed" /\ call[c].error = c
        /\ call[d].pc = "done" /\ call[d].fetches = 1
        /\ pendingRequests = EmptyMap


(***************************************************************************)
(* C9.  Scope isolation: for one logical key, a set under scope a leaves   *)
(* what get returns under every other scope b as it was, and get under a   *)
(* then returns the payload set.                                           *)
(***************************************************************************)
Read(st, key, userId, t) == LoadFromCache(st, CacheKey(key, userId), t, TRUE)

C9_ScopeIsolation ==
    (op.name = "set" /\ op.userId \in Scopes) =>
        /\ op.kept
        /\ op.ok => Read(store, op.key, op.userId, now) = op.val

C9_Witness ==
    /\ op.name = "set" /\ op.ok /\ op.userId \in Scopes
    /\ op.val \in {"v1", "v2"}
    /\ Read(store, op.key, op.userId, now) = op.val
    /\ \E b \in Scopes \ {op.userId} :
           /\ Read(store, op.key, b, now) \in {"v1", "v2"}
           /\ Read(store, op.key, b, now) # op.val

(***************************************************************************)
(* C10.  get returns the payload of the stored envelope if                 *)
(* now - storedAt < ttl, with the ttl stored in the envelope, and absent   *)
(* (null) otherwise, also when now - storedAt = ttl.                       *)
(***************************************************************************)
C10_ValidIffWithinTtl ==
    (op.name = "get" /\ op.ok) =>
        LET ck == CacheKey(op.key, op.userId)
        IN  IF Has(store, ck)
            THEN /\ now - store[ck].timestamp < store[ck].expiry
                        => op.val = StoredPayload(store[ck])
                 /\ now - store[ck].timestamp >= store[ck].expiry
                        => op.val = Null
            ELSE op.val = Null

C10_Witness ==
    /\ op.name = "get" /\ op.ok
    /\ LET ck == CacheKey(op.key, op.userId)
       IN  /\ Has(store, ck)
           /\ now - store[ck].timestamp = store[ck].expiry
           /\ StoredPayload(store[ck]) = "v1"
           /\ op.val = Null

(***************************************************************************)
(* C11.  Round trip: a get that follows a successful set of payload p for  *)
(* the same key and scope, before the ttl has elapsed and with no call in  *)
(* between, returns p and does not report a miss (null), whatever p is.    *)
(***************************************************************************)
C11_RoundTrip ==
    [][( /\ op.name = "set" /\ op.ok
         /\ op'.name = "get" /\ op'.ok
         /\ op'.key = op.key /\ op'.userId = op.userId
         /\ LET ck == CacheKey(op.key, op.userId)
            IN  now - store[ck].timestamp < store[ck].expiry )
       => (op'.val = op.val /\ op'.val # Null)]_vars

(***************************************************************************)
(* C12.  get never fails: when getItem fails or the stored text is no      *)
(* envelope, loadFromCache returns null (absent) and not an error, and the *)
(* store is as it was.                                                     *)
(***************************************************************************)
Unreadable(st, cacheKey) == Has(st, cacheKey) /\ ~Parses(st[cacheKey])

C12_GetNeverFails ==
    /\ []( ( /\ op.name = "get"
             /\ ~op.ok \/ Unreadable(store, CacheKey(op.key, op.userId)) )
           => op.val = Null )
    /\ []( op.name = "get" => op.val # "throws" )
    /\ [][op'.name = "get" => store' = store]_vars

C12_Witness ==
    /\ op.name = "get" /\ op.ok /\ op.userId = <<"u">>
    /\ Unreadable(store, CacheKey(op.key, op.userId))
    /\ Has(store, CacheKey(op.key, NoArg))
    /\ Parses(store[CacheKey(op.key, NoArg)])
    /\ op.val = Null

(***************************************************************************)
(* C13.  A store write failure is swallowed: the failed setItem leaves the *)
(* store as it was, saveToCache returns to withCache all the same, and the *)
(* call whose fetch resolved resolves with the fetched payload.            *)
(***************************************************************************)
WriteFailed(c) ==
    /\ fetch[c].st = "resolved" /\ ~call[c].wrote
    /\ call[c].pc \in {"line113", "done", "failed"}

C13_WriteFailureSwallowed ==
    /\ [](\A c \in Calls :
            (WriteFailed(c) /\ Returned(c)) =>
                call[c].pc = "done" /\ call[c].result = fetch[c].val)
    /\ [][\A c \in Calls :
            call[c].pc = "save" =>
                /\ call'[c].pc \in {"save", "line113"}
                /\ (call'[c].pc = "line113" /\ ~call'[c].wrote)
                       => store' = store]_vars

C13_Witness ==
    \E c \in Calls :
        /\ WriteFailed(c) /\ call[c].pc = "done"
        /\ call[c].result = fetch[c].val /\ call[c].result = "v1"
        /\ call[c].loaded = "expired"
        /\ Has(store, KeyOf(c))
        /\ StoredPayload(store[KeyOf(c)]) = call[c].stored
        /\ call[c].stored # call[c].result

(***************************************************************************)
(* C14.  Only fetch failures are visible: a call rejects only with the     *)
(* error of a rejected fetchFn invocation for its key, its own or the one  *)
(* it awaited; a call that met failed store reads, removals or writes and  *)
(* whose own fetch resolved resolves with the payload of that fetch.       *)
(***************************************************************************)
StoreFailures(c) ==
    (IF call[c].loaded = "fail" THEN 1 ELSE 0)
    + (IF call[c].cleared = "fail" THEN 1 ELSE 0)
    + (IF WriteFailed(c) THEN 1 ELSE 0)

C15_InvalidateIdempotent ==
    /\ (op.name = "invalidate" /\ op.ok) =>
           /\ ~Has(store, CacheKey(op.key, op.userId))
           /\ op.userId \in Scopes => op.kept
    /\ \A key \in SKeys, userId \in SUsers :
           LET ck == CacheKey(key, userId)
               once == ClearCache(store, ck, TRUE)
           IN  /\ ~Has(once, ck)
               /\ ~Has(store, ck) => once = store
               /\ ClearCache(once, ck, TRUE) = once
               /\ \A x \in DOMAIN store \ {ck} :
                      Has(once, x) /\ once[x] = store[x]

C15_Witness ==
    /\ op.name = "invalidate" /\ op.ok /\ op.userId = <<"u">>
    /\ ~Has(store, CacheKey(op.key, op.userId))
    /\ Has(store, CacheKey(op.key, <<"w">>))
    /\ Has(store, CacheKey(op.key, NoArg))

EndsWith(s, sub) ==
    /\ Len(sub) <= Len(s)
    /\ SubSeq(s, Len(s) - Len(sub) + 1, Len(s)) = sub

C17_SweepBySuffix ==
    [][op'.name = "sweep" =>
          \A x \in DOMAIN store \ DOMAIN store' :
              EndsWith(x, <<"_">> \o op'.userId)]_vars

(***************************************************************************)
(* C18.  Best effort: when the enumeration or the removal of the store     *)
(* fails, the sweep and the single-key invalidation return to their caller *)
(* and throw nothing; nothing outside the keys they address is touched.    *)
(***************************************************************************)
C18_BestEffort ==
    /\ []( (op.name \in {"sweep", "invalidate"} /\ ~op.ok)
            => op.val = Undefined )
    /\ [][(op'.name = "invalidate" /\ ~op'.ok) => store' = store]_vars
    /\ [][(op'.name = "sweep" /\ ~op'.ok) =>
            /\ DOMAIN store' \subseteq DOMAIN store
            /\ \A x \in DOMAIN store' : store'[x] = store[x]
            /\ \A x \in DOMAIN store \ DOMAIN store' :
                   Includes(x, <<"_">> \o op'.userId)]_vars

C18_Witness ==
    /\ op.name = "sweep" /\ ~op.ok /\ op.userId = <<"u">>
    /\ op.val = Undefined
    /\ Has(store, CacheKey(<<"k">>, <<"u">>))
    /\ ~Has(store, CacheKey(<<"m">>, <<"u">>))
    /\ Has(store, CacheKey(<<"m">>, <<"w">>))

(***************************************************************************)
(* C19.  The check of the registry and the registration are atomic: from   *)
(* the moment a caller has read that no request is registered for its key  *)
(* until it registers its own, no other caller takes a step, so the        *)
(* registry still holds no request for the key when it registers.          *)
(***************************************************************************)
Observing(c) == call[c].pc = "await100" /\ call[c].seen = 0

C19_CheckThenRegisterAtomic ==
    /\ [](\A c \in Calls : Observing(c) => Pending(KeyOf(c)) = 0)
    /\ [][\A c \in Calls :
            (Observing(c) /\ call'[c].pc = "await108") =>
                Pending(KeyOf(c)) = 0]_vars

(***************************************************************************)
(* C20.  Write before return: when a call that started a fetch resolves,   *)
(* its write did not fail and no call invalidated the key, the store holds *)
(* under the composite key an entry whose payload is the result returned   *)
(* and whose ttl is the ttl passed to the call.  Stated for the runs in    *)
(* which no call attached to another's request.                            *)
(***************************************************************************)
C20_WriteBeforeReturn ==
    [][\A c \in Calls :
        ( /\ call[c].pc = "line113" /\ call'[c].pc = "done"
          /\ call[c].wrote
          /\ \A d \in Calls : ~call[d].forceRefresh /\ call[d].seen = 0 )
        => /\ Has(store', KeyOf(c))
           /\ StoredPayload(store'[KeyOf(c)]) = call'[c].result
           /\ store'[KeyOf(c)].expiry = call[c].expiry]_vars

(***************************************************************************)
(* C21.  No retry: a call invokes its fetchFn at most once; not at all     *)
(* when it finds a valid entry (here: one whose payload is not null, see   *)
(* C4) and not at all when it attaches to a request in flight.             *)
(***************************************************************************)
C21_NoRetry ==
    \A c \in Calls :
        /\ call[c].fetches <= 1
        /\ (call[c].loaded = "valid" /\ call[c].stored # Null)
               => call[c].fetches = 0
        /\ Attached(c) => call[c].fetches = 0

(***************************************************************************)
(* C22.  Staleness is lazy: get never changes the store, an expired entry  *)
(* read stays where it is, and the store changes only by a successful set  *)
(* or a successful invalidate.                                             *)
(***************************************************************************)
C22_LazyStaleness ==
    /\ [][op'.name = "get" => store' = store]_vars
    /\ [][store' # store =>
            (op'.name \in {"set", "invalidate"} /\ op'.ok)]_vars
    /\ []( (op.name = "get" /\ op.ok) =>
             LET ck == CacheKey(op.key, op.userId)
             IN  (Has(store, ck) /\ ~IsValid(JsonParseEnvelope(store[ck]), now))
                    => op.val = Null )

C22_Witness ==
    /\ op.name = "get" /\ op.ok /\ op.val = Null
    /\ LET ck == CacheKey(op.key, op.userId)
       IN  /\ Has(store, ck)
           /\ ~IsValid(JsonParseEnvelope(store[ck]), now)
           /\ StoredPayload(store[ck]) = "v2"

(***************************************************************************)
(* C23.  The cleanup of a call removes only its own registration: a        *)
(* registration whose fetch is still outstanding is never removed from the *)
(* registry (the call that made it is waiting for that fetch).             *)
(***************************************************************************)
C23_CleanupOwnRegistration ==
    [][\A ck \in DOMAIN pendingRequests :
          fetch[pendingRequests[ck]].st = "pending"
              => ck \in DOMAIN pendingRequests']_vars

(***************************************************************************)
(* C24.  A call that resolves does so with the payload of the valid entry  *)
(* it read or with the payload a fetchFn invocation for its cache key      *)
(* resolved with; never with undefined.                                    *)
(***************************************************************************)
C24_ResolvesWithPayload ==
    \A c \in Calls :
        call[c].pc = "done" =>
            \/ call[c].loaded = "valid" /\ call[c].result = call[c].stored
            \/ \E d \in Calls :
                   /\ KeyOf(d) = KeyOf(c) /\ fetch[d].st = "resolved"
                   /\ call[c].result = fetch[d].val

(***************************************************************************)
(* C25.  An invalidation is not undone by an older fetch: a call whose     *)
(* fetch was in flight when another call's invalidation of the same key    *)
(* completed does not write that fetch's payload to the store afterwards.  *)
(***************************************************************************)
C25_InvalidationNotUndone ==
    \A c, d \in Calls :
        (c \in call[d].older /\ call[d].cleared = "ok") => ~call[c].wrote

(***************************************************************************)
(* C26.  A call with forceRefresh whose own fetch rejects leaves no entry  *)
(* under its key, so that a get that follows returns absent.               *)
(***************************************************************************)
C26_ForceRefreshFailure ==
    \A c \in Calls :
        (call[c].forceRefresh /\ call[c].pc = "failed" /\ call[c].error = c)
            => /\ ~Has(store, KeyOf(c))
               /\ Read(store, call[c].key, call[c].userId, now) = Null

(***************************************************************************)
(* C26 as amended.  A call with forceRefresh whose removeItem succeeded    *)
(* and whose own fetch rejects leaves no entry under its key, whatever was *)
(* stored before the call, unless another call has written the key; a get  *)
(* that follows returns absent.  A step of a call without forceRefresh     *)
(* changes the store only when the call's own fetch has resolved, and a    *)
(* call of either kind whose fetch rejected has written nothing.           *)
(***************************************************************************)
C26_ForceRefreshNotRestored ==
    /\ [](\A c \in Calls :
            ( /\ call[c].forceRefresh /\ call[c].cleared = "ok"
              /\ call[c].pc = "failed" /\ call[c].error = c
              /\ \A d \in Calls \ {c} : ~call[d].wrote )
            => /\ ~Has(store, KeyOf(c))
               /\ Read(store, call[c].key, call[c].userId, now) = Null)
    /\ [](\A c \in Calls :
            (call[c].pc = "failed" /\ call[c].error = c) => ~call[c].wrote)
    /\ [][\A c \in Calls :
            ( /\ ~call[c].forceRefresh /\ call'[c] # call[c]
              /\ fetch[c].st # "resolved" )
            => store' = store]_vars

C26_Witness ==
    \E c, d \in Calls :
        /\ call[c].fresh /\ call[c].cleared = "ok"
        /\ call[c].pc = "failed" /\ call[c].error = c
        /\ ~Has(store, KeyOf(c))
        /\ ~call[d].forceRefresh /\ call[d].loaded = "absent"
        /\ call[d].pc = "failed" /\ call[d].error = d

(***************************************************************************)
(* C27.  Distinct (logical key, scope) pairs never share a composite key:  *)
(* a set or an invalidate on one pair leaves what get returns for every    *)
(* other pair as it was.                                                   *)
(***************************************************************************)
C27_PairsIndependent ==
    [][\A key \in PKeys, userId \in PUsers :
          ( /\ op'.name \in {"set", "invalidate"}
            /\ <<op'.key, op'.userId>> # <<key, userId>> )
          => Read(store', key, userId, now) = Read(store, key, userId, now)]_vars

(***************************************************************************)
(* C28.  Every withCache call, the one that starts a fetch and every one   *)
(* attached to it, eventually resolves or rejects, when every fetchFn()    *)
(* promise and every AsyncStorage operation settles.                       *)
(***************************************************************************)
C28_EveryCallSettles ==
    \A c \in Calls : InProgress(c) ~> Returned(c)

C28_Witness ==
    \E c, d \in Calls :
        /\ Attached(d) /\ call[d].seen = c
        /\ call[c].pc = "done" /\ call[d].pc = "done"
        /\ call[d].fetches = 0 /\ pendingRequests = EmptyMap

(***************************************************************************)
(* C29.  A caller attached to an in-flight fetch never uses its own        *)
(* fetchFn or ttl and writes nothing to the store: the entry written       *)
(* carries the payload and the ttl of the call that started the fetch.     *)
(***************************************************************************)
C29_StarterWrites ==
    /\ [](\A c \in Calls : Attached(c) => (call[c].fetches = 0 /\ ~call[c].wrote))
    /\ [][\A c \in Calls :
            (call[c].pc = "save" /\ call'[c].wrote)
            => /\ ~Attached(c)
               /\ StoredPayload(store'[KeyOf(c)]) = fetch[c].val
               /\ store'[KeyOf(c)].expiry = call[c].expiry]_vars

(***************************************************************************)
(* C30.  refreshUserData is mutually exclusive: at most one invocation is  *)
(* in its body at a time; the flag is true exactly while one is, so every  *)
(* exit path has reset it; an invocation made while another is in its body *)
(* returns having touched nothing and changed neither ref; and an          *)
(* invocation made when none is in its body and the cooldown has passed    *)
(* enters the body.                                                        *)
(***************************************************************************)
C30_RefreshExclusive ==
    /\ [](Cardinality(InBody) <= 1)
    /\ [](isRefreshingRef <=> InBody # {})
    /\ [](\A r \in Refreshers :
            refresh[r].exit = "skipped" => ~refresh[r].touched)
    /\ [][\A r \in Refreshers :
            (refresh[r].pc = "idle" /\ refresh'[r].pc # "idle") =>
                IF InBody # {}
                THEN /\ refresh'[r].exit = "skipped"
                     /\ UNCHANGED <<isRefreshingRef, lastRefreshTimeRef>>
                ELSE (now - lastRefreshTimeRef >= REFRESH_COOLDOWN)
                        => refresh'[r].pc = "getSession"]_vars

C30_Witness ==
    /\ refresh[1].exit = "cached"
    /\ refresh[2].exit = "skipped"
    /\ refresh[3].pc = "query" /\ isRefreshingRef

=============================================================================
